---- MODULE Spec2Model ----
(***************************************************************************)
(* State-machine model of the slack-irc bridge (src/lib/bot.js and         *)
(* src/lib/commands.js): the pool of per-user IRC clients (ircClients),    *)
(* their away timers, the per-user message queues (messageQueues) and the  *)
(* asynchronous lookups and text transforms that run between the events.   *)
(*                                                                         *)
(* Every event handler of the code is one action.  A handler that waits    *)
(* for a promise (a Slack web lookup, parseText) is split at the promise:  *)
(* the part before it is one action, its then-callback another, and the    *)
(* lookups in flight are part of the state, so that they complete in any   *)
(* order.                                                                  *)
(***************************************************************************)
EXTENDS Integers, Sequences, FiniteSets, TLC

\* ------------------------------------------------------------------ bounds
MaxClients == 2
MaxLeaked == 1
MaxMsgs == 2
MaxInFlight == 2

\* ------------------------------------------------------- static configuration
Users == {"U1", "U2", "USLACKBOT"}

\* A channelMapping that sends every other channel to #irc-general.
channelMappingWithDefault(chan) ==
  CASE chan = "#general" -> "#irc-general"
    [] chan = "#random" -> "#irc-random"
    [] OTHER -> "#irc-general"

\* options.channelMapping after the constructor lower-cased the IRC side.
SlackChannels == {"#general", "#random", "#lobby"}
channelMapping(chan) ==
  CASE chan = "#general" -> "#irc-general"
    [] chan = "#random" -> "#irc-random"
    [] OTHER -> "none"

\* options.commandCharacters
commandCharacters == {".", "!"}

\* Message texts, as the tokens the code looks at: the first character of a
\* command is its first token, a user reference <@U..> is the token "<@U>".
Texts == {<<"hi">>, <<"<@U>", "hi">>, <<".", "reset">>}

NoClient == 0

\* The authors of messages on IRC: the nicks of the users' clients (written
\* as the users' ids), a user of IRC, and the name of the bot user on Slack.
BotName == "bot"
Authors == Users \cup {"irc-user"}

VARIABLES
  statusChanges,    \* this.statusChanges
  disconnectOnAway, \* this.disconnectOnAway
  ircClients,       \* this.ircClients: user id -> client (NoClient: no entry)
  clients,          \* every irc.Client created so far, by creation order
  messageQueues,    \* this.messageQueues: user id -> channel -> messages
  msgs,             \* every Slack message received so far, by arrival order
  lookups,          \* Slack web lookups in flight, per <<kind, user>>
  pushed,           \* per user, the messages in the order of their push
  sent,             \* per user, the calls of client.say/client.action so far
  slackPosts,       \* the authors sendToSlack has posted a message of to Slack
  nickSuffix,       \* this.nickSuffix, a string as the sequence of its characters
  slackNames,       \* user id -> userName(user), what users.info gives for it
  relayed,          \* a text with a mention on its way through the transforms
  ircClient,        \* this.ircClient, the bot's own client: invites and joins
  options,          \* the options the constructor is called with
  bridge            \* what new Bot(options) gave: the bot or the error thrown

\* What the handlers of the pool and the queues never write.
nickVars == <<nickSuffix, slackNames, relayed, ircClient, options, bridge>>

vars == <<statusChanges, disconnectOnAway, ircClients, clients, messageQueues,
          msgs, lookups, pushed, sent, slackPosts, nickSuffix, slackNames, relayed,
          ircClient, options, bridge>>

\* The mutable fields of the bot that the handlers read and write, as one
\* value, so that a handler calling several methods is their composition.
Cur ==
  [ircClients |-> ircClients, clients |-> clients,
   messageQueues |-> messageQueues, msgs |-> msgs, pushed |-> pushed,
   sent |-> sent]

ClientIds(s) == 1..Len(s.clients)

\* ------------------------------------------------ connection state (spec 4.1)
\* The state of a client in the words of the specification: closed once its
\* socket has ended, disconnecting from the call of disconnect() until then,
\* ready from the connect callback on, connecting before.
connectionState(cl) ==
  IF cl.ended THEN "closed"
  ELSE IF cl.quit THEN "disconnecting"
  ELSE IF cl.connected THEN "ready"
  ELSE "connecting"

\* --------------------------------------------------------------- away timers
\* startAwayTimer without its setTimeout.
startAwayTimerUnarmed(s, u) == s

\* startAwayTimer: client.timer = setTimeout(...) on the pool entry of the
\* user.  A timer that client.timer referred to and that is still pending is
\* not cancelled by the assignment: it stays pending without a handle.
startAwayTimer(s, u) ==
  LET c == s.ircClients[u] IN
  IF c = NoClient THEN s
  ELSE [s EXCEPT !.clients[c].leaked = IF s.clients[c].timer THEN @ + 1 ELSE @,
                 !.clients[c].timer = TRUE]

\* clearAwayTimer: clearTimeout(client.timer) on the pool entry of the user.
clearAwayTimer(s, u) ==
  LET c == s.ircClients[u] IN
  IF c = NoClient THEN s
  ELSE [s EXCEPT !.clients[c].timer = FALSE]

restartAwayTimer(s, u) == startAwayTimer(clearAwayTimer(s, u), u)

\* ---------------------------------------------------------------- the pool
\* irc.Client.disconnect: QUIT is sent and the socket is ended; the socket's
\* 'end' (the callback of deleteClient) comes later.
disconnect(cl) ==
  [cl EXCEPT !.quit = TRUE, !.releases = @ + 1]

\* ------------------------------------------------------------------ nicks
\* Strings are sequences of characters; the only white space is " ".
SERVER_NICKLEN == 16
Digits == {"0", "1", "2", "3", "4", "5", "6", "7", "8", "9"}

\* str.replace(/c/g, by) for one character c.
replaceEach(str, c, by) == [i \in 1..Len(str) |-> IF str[i] = c THEN by ELSE str[i]]

\* str.substr(0, length): a length below 0 counts as 0.
substr(str, length) ==
  IF length <= 0 THEN <<>>
  ELSE SubSeq(str, 1, IF length < Len(str) THEN length ELSE Len(str))

\* ircNick: slackName.replace(/\./g, '-').replace(/ /g, '-').substr(0,
\* SERVER_NICKLEN - this.nickSuffix.length) + this.nickSuffix
ircNick(slackName) ==
  substr(replaceEach(replaceEach(slackName, ".", "-"), " ", "-"),
         SERVER_NICKLEN - Len(nickSuffix)) \o nickSuffix

\* A new irc.Client after newClient: connect() has been called (conn is set),
\* connected is false, no timer.  errored and warned record what the error
\* handler attached to the client has done: logged an error, opened the IM
\* for the notice of an invalid username.
freshClient(u) ==
  [userId |-> u, connected |-> FALSE, quit |-> FALSE, ended |-> FALSE,
   timer |-> FALSE, leaked |-> 0, stale |-> 0, releases |-> 0, names |-> FALSE,
   errored |-> FALSE, warned |-> FALSE,
   nick |-> ircNick(slackNames[u]), slackName |-> slackNames[u]]

newClient(s, u) ==
  [s EXCEPT !.clients = Append(@, freshClient(u)),
            !.ircClients[u] = Len(s.clients) + 1]

\* connectNewClient without its test of this.ircClients.
connectNewClientUnguarded(s, u) == newClient(s, u)

connectNewClient(s, u) ==
  IF s.ircClients[u] = NoClient THEN newClient(s, u) ELSE s

\* deleteClient without its delete this.ircClients[user.id].
deleteClientKeepingEntry(s, u) ==
  LET c == s.ircClients[u] IN
  IF c = NoClient THEN s
  ELSE [s EXCEPT !.clients[c] = disconnect(@)]

\* deleteClient without its test client != null: it goes on to disconnect the
\* client the user had last.
deleteClientRepeating(s, u) ==
  LET c == s.ircClients[u]
      own == {d \in ClientIds(s) : s.clients[d].userId = u}
  IN
  IF c = NoClient
  THEN IF own = {} THEN s
       ELSE [s EXCEPT !.clients[CHOOSE d \in own : \A e \in own : e <= d] = disconnect(@)]
  ELSE [s EXCEPT !.clients[c] = disconnect(@), !.ircClients[u] = NoClient]

\* deleteClient: client.conn is set by connect() in newClient, so it is never
\* null for a pool entry and disconnect() is always called.
deleteClient(s, u) ==
  LET c == s.ircClients[u] IN
  IF c = NoClient THEN s
  ELSE [s EXCEPT !.clients[c] = disconnect(@), !.ircClients[u] = NoClient]

\* ------------------------------------------------------------ message queues
\* A message of messageQueues: an object whose keys are IRC channels in the
\* order of their first use (the order _.keys gives), each with its array.
NoQueue == [has |-> FALSE, chans |-> <<>>]

\* isCommandMessage finding no command character.
isCommandMessageNever(text) == FALSE

isCommandMessage(text) == text[1] \in commandCharacters

\* parseText waits for slack.web.users.info once per <@U..> token of the text
\* (asyncReplace); a text without such a token resolves without any lookup.
needsLookup(text) == \E i \in 1..Len(text) : text[i] = "<@U>"

chanIndex(q, chan) ==
  IF \E i \in 1..Len(q.chans) : q.chans[i].chan = chan
  THEN CHOOSE i \in 1..Len(q.chans) : q.chans[i].chan = chan
  ELSE 0

\* messageQueue[ircChannel] = messageQueue[ircChannel] || []; push(message)
push(q, chan, m) ==
  LET i == chanIndex(q, chan) IN
  IF i = 0 THEN [q EXCEPT !.chans = Append(@, [chan |-> chan, msgs |-> <<m>>])]
  ELSE [q EXCEPT !.chans[i].msgs = Append(@, m)]

\* client.say(channel, final) / client.action(channel, text) on client c: the
\* call reaches network B when c is ready, and goes nowhere once disconnect()
\* was called on c or its socket ended.
say(s, m, c, chan) ==
  LET u == s.msgs[m].user IN
  [s EXCEPT !.sent[u] = Append(@, [msg |-> m, client |-> c, chan |-> chan,
                                   live |-> connectionState(s.clients[c]) = "ready"]),
            !.msgs[m].stage = "sent"]

\* One turn of the while loop of sendMessagesToIRC: messages.shift(), then
\* parseText(message.text).then(... client.say ...).  The transform of a text
\* without user reference resolves in the same turn of the event loop, before
\* any other event; the transform of a text with one stays in flight.
shiftOne(s, m, c, chan) ==
  IF needsLookup(s.msgs[m].text)
  THEN [s EXCEPT !.msgs[m].stage = "parsing", !.msgs[m].client = c]
  ELSE say([s EXCEPT !.msgs[m].client = c], m, c, chan)

RECURSIVE shiftAll(_, _, _, _)
shiftAll(s, ms, c, chan) ==
  IF ms = <<>> THEN s
  ELSE shiftAll(shiftOne(s, Head(ms), c, chan), Tail(ms), c, chan)

\* for (const channel of _.keys(messageQueue)) while (messages.length > 0) ...
RECURSIVE drainFrom(_, _, _, _)
drainFrom(s, u, c, i) ==
  LET q == s.messageQueues[u] IN
  IF i > Len(q.chans) THEN s
  ELSE drainFrom([shiftAll(s, q.chans[i].msgs, c, q.chans[i].chan)
                    EXCEPT !.messageQueues[u].chans[i].msgs = <<>>], u, c, i + 1)

sendMessagesToIRC(s, u) ==
  LET c == s.ircClients[u] IN
  IF ~s.messageQueues[u].has THEN s
  ELSE IF c = NoClient THEN connectNewClient(s, u)
  ELSE IF ~s.clients[c].connected THEN s
  \* The timers still pending without handle were all set before this drain.
  ELSE drainFrom([restartAwayTimer(s, u) EXCEPT !.clients[c].stale = s.clients[c].leaked],
                 u, c, 1)

\* ------------------------------------------------------------------- Init
\* The names users.info gives, and options.userNickSuffix || '-sl'.
SlackbotName == <<"s", "l", "a", "c", "k", "b", "o", "t">>
DefaultNames ==
  [u \in Users |-> CASE u = "U1" -> <<"a", "n", "a">>
                     [] u = "U2" -> <<"b", "o", "b">>
                     [] OTHER -> SlackbotName]
DefaultSuffix == <<"-", "s", "l">>
NoRelay == [at |-> "none", user |-> "none", ready |-> FALSE, after |-> <<>>, text |-> <<>>]

\* The bot after its constructor and connect(): no client, no queue.
InitBot ==
  /\ statusChanges \in BOOLEAN
  /\ disconnectOnAway \in BOOLEAN
  /\ ircClients = [u \in Users |-> NoClient]
  /\ clients = <<>>
  /\ messageQueues = [u \in Users |-> NoQueue]
  /\ msgs = <<>>
  /\ lookups = {}
  /\ pushed = [u \in Users |-> <<>>]
  /\ sent = [u \in Users |-> <<>>]
  /\ slackPosts = {}
  /\ relayed = NoRelay
  /\ ircClient = [invited |-> {}, chans |-> {}]

\* ------------------------------------------------------------ constructor
\* The options as what the constructor tests of them: whether each required
\* field is there (truthy), whether the channel mapping passes
\* validateChannelMapping, and whether there is an imgur object.
RequiredOptions == [server |-> TRUE, nickname |-> TRUE, channelMapping |-> TRUE,
                    token |-> TRUE, validMapping |-> TRUE, imgur |-> FALSE,
                    muteSlackbot |-> FALSE]
FullOptions == [RequiredOptions EXCEPT !.imgur = TRUE]

\* The constructor's test of REQUIRED_FIELDS.
hasRequired(o) == o.server /\ o.nickname /\ o.channelMapping /\ o.token

\* new Bot(options): a missing required field and a mapping that
\* validateChannelMapping rejects throw a ConfigurationError;
\* options.imgur.clientId throws a TypeError without an imgur object.
constructor(o) ==
  IF ~hasRequired(o) THEN "ConfigurationError"
  ELSE IF ~o.validMapping THEN "ConfigurationError"
  ELSE IF ~o.imgur THEN "TypeError"
  ELSE "bot"

\* The bot has been constructed, from options that have everything.
Constructed == options = FullOptions /\ bridge = "bot"

Init ==
  /\ InitBot /\ Constructed
  /\ nickSuffix = DefaultSuffix /\ slackNames = DefaultNames

\* The bounds of the model, as a guard on the state a handler leads to.
Bounded(s) ==
  /\ Len(s.clients) <= MaxClients
  /\ Len(s.msgs) <= MaxMsgs
  /\ \A c \in ClientIds(s) : s.clients[c].leaked <= MaxLeaked

Apply(s) ==
  /\ Bounded(s)
  /\ ircClients' = s.ircClients
  /\ clients' = s.clients
  /\ messageQueues' = s.messageQueues
  /\ msgs' = s.msgs
  /\ pushed' = s.pushed
  /\ sent' = s.sent
  /\ UNCHANGED <<nickVars, statusChanges, disconnectOnAway, slackPosts>>

\* A lookup in flight: the kind of handler that waits for it, and its user.
\* Two lookups of one kind for one user are told apart by a number.
launch(kind, u) ==
  /\ Cardinality(lookups) < MaxInFlight
  /\ lookups' = lookups \cup
       {[kind |-> kind, user |-> u,
         n |-> 1 + Cardinality({l \in lookups : l.kind = kind /\ l.user = u})]}

\* The lookups in flight once l has completed.  Lookups of one kind for one
\* user are alike, so the numbers of those left are closed up.
land(l) ==
  {IF k.kind = l.kind /\ k.user = l.user /\ k.n > l.n THEN [k EXCEPT !.n = @ - 1] ELSE k :
     k \in lookups \ {l}}

\* ------------------------------------------------- Slack events: acquisition
\* rtm.on('user_typing'): look the user up unless it has a client.
UserTyping(u) ==
  /\ ircClients[u] = NoClient
  /\ launch("typing", u)
  /\ UNCHANGED <<nickVars, statusChanges, disconnectOnAway, ircClients, clients,
                 messageQueues, msgs, pushed, sent, slackPosts>>

\* ... .then(resp => this.connectNewClient(resp.user))
TypingDone(l) ==
  /\ l \in lookups /\ l.kind = "typing"
  /\ lookups' = land(l)
  /\ Apply(connectNewClient(Cur, l.user))

\* rtm.on('presence_change'): nothing unless statusChanges is set; else
\* users.info and bots.info are looked up before anything is read.
PresenceChange(u, presence) ==
  /\ statusChanges
  /\ launch(presence, u)
  /\ UNCHANGED <<nickVars, statusChanges, disconnectOnAway, ircClients, clients,
                 messageQueues, msgs, pushed, sent, slackPosts>>

\* The body of the presence_change handler after its two lookups, for a user
\* that is no bot.  client.send('AWAY') changes nothing the bridge keeps.
presenceChanged(s, u, presence) ==
  IF presence = "active"
  THEN IF s.ircClients[u] = NoClient THEN connectNewClient(s, u)
       ELSE IF disconnectOnAway THEN clearAwayTimer(s, u)
       ELSE s
  ELSE IF s.ircClients[u] # NoClient /\ disconnectOnAway THEN startAwayTimer(s, u)
       ELSE s

PresenceDone(l) ==
  /\ l \in lookups /\ l.kind \in {"active", "away"}
  /\ lookups' = land(l)
  /\ Apply(presenceChanged(Cur, l.user, l.kind))

\* checkActiveUsers, after getSlackChannelByName: one users.info per member
\* of the channel, all launched in the same loop.
CheckActiveUsers(members) ==
  /\ statusChanges
  /\ Cardinality(lookups) + Cardinality(members) <= MaxInFlight
  /\ lookups' = lookups \cup
       {[kind |-> "scan", user |-> u,
         n |-> 1 + Cardinality({l \in lookups : l.kind = "scan" /\ l.user = u})] : u \in members}
  /\ UNCHANGED <<nickVars, statusChanges, disconnectOnAway, ircClients, clients,
                 messageQueues, msgs, pushed, sent, slackPosts>>

\* ... if (user.presence === 'active') this.connectNewClient(user)
ScanDone(l, presence) ==
  /\ l \in lookups /\ l.kind = "scan"
  /\ lookups' = land(l)
  /\ Apply(IF presence = "active" THEN connectNewClient(Cur, l.user) ELSE Cur)

\* A lookup that fails: every handler logs the error and does nothing else.
LookupFailed(l) ==
  /\ l \in lookups
  /\ lookups' = land(l)
  /\ UNCHANGED <<nickVars, statusChanges, disconnectOnAway, ircClients, clients,
                 messageQueues, msgs, pushed, sent, slackPosts>>

\* ------------------------------------------------ events of a user's client
\* The callback of client.connect (the first 'registered' of the client):
\* client.connected = true; startAwayTimer(user).  It can still arrive after
\* disconnect() as long as the socket has not ended.
ConnectCallback(c) ==
  /\ c \in ClientIds(Cur)
  /\ ~clients[c].connected /\ ~clients[c].ended
  /\ Apply(startAwayTimer([Cur EXCEPT !.clients[c].connected = TRUE], clients[c].userId))
  /\ UNCHANGED lookups

\* client.on('names'): a channel was joined, after the registration.
Names(c) ==
  /\ c \in ClientIds(Cur)
  /\ clients[c].connected /\ ~clients[c].ended
  /\ Apply(sendMessagesToIRC([Cur EXCEPT !.clients[c].names = TRUE], clients[c].userId))
  /\ UNCHANGED lookups

\* The error handler without its branch for rawCommand 432.
ClientErrorLoggedOnly(c) ==
  /\ c \in ClientIds(Cur)
  /\ ~clients[c].connected /\ ~clients[c].ended
  /\ Apply([Cur EXCEPT !.clients[c].errored = TRUE])
  /\ UNCHANGED lookups

\* client.on('error') with rawCommand 432 (erroneous nickname), which the
\* server answers to the registration: im.open for the notice, deleteClient.
ClientError(c) ==
  /\ c \in ClientIds(Cur)
  /\ ~clients[c].connected /\ ~clients[c].ended
  /\ Apply(deleteClient([Cur EXCEPT !.clients[c].errored = TRUE,
                                    !.clients[c].warned = TRUE],
                        clients[c].userId))
  /\ UNCHANGED lookups

\* client.on('error') with any other rawCommand (433 nickname in use, ...):
\* the handler logs the error and does nothing else.
ClientErrorOther(c) ==
  /\ c \in ClientIds(Cur)
  /\ ~clients[c].ended
  /\ Apply([Cur EXCEPT !.clients[c].errored = TRUE])
  /\ UNCHANGED lookups

\* The abort handler without its deleteClient.
ClientAbortLoggedOnly(c) ==
  /\ c \in ClientIds(Cur)
  /\ ~clients[c].quit /\ ~clients[c].ended
  /\ Apply([Cur EXCEPT !.clients[c].ended = TRUE])
  /\ UNCHANGED lookups

\* client.on('abort'): the client gave up reconnecting, its socket is gone.
\* A client whose disconnect() was called does not reconnect and so never
\* aborts.
ClientAbort(c) ==
  /\ c \in ClientIds(Cur)
  /\ ~clients[c].quit /\ ~clients[c].ended
  /\ Apply(deleteClient([Cur EXCEPT !.clients[c].ended = TRUE], clients[c].userId))
  /\ UNCHANGED lookups

\* The end of the socket after disconnect(): the callback given to
\* client.disconnect in deleteClient, which only logs.
SocketEnd(c) ==
  /\ c \in ClientIds(Cur)
  /\ clients[c].quit /\ ~clients[c].ended
  /\ Apply([Cur EXCEPT !.clients[c].ended = TRUE])
  /\ UNCHANGED lookups

\* A pending timeout set by startAwayTimer on client c fires: the one
\* client.timer refers to (handle) or one it no longer refers to.
\* Its closure calls deleteClient(user, message).  All timers have the same
\* interval, so of those without handle the oldest fires first.
TimerFire(c, handle) ==
  /\ c \in ClientIds(Cur)
  /\ IF handle THEN clients[c].timer ELSE clients[c].leaked > 0
  /\ Apply(deleteClient(IF handle THEN [Cur EXCEPT !.clients[c].timer = FALSE]
                                   ELSE [Cur EXCEPT !.clients[c].leaked = @ - 1,
                                                    !.clients[c].stale =
                                                      IF @ > 0 THEN @ - 1 ELSE 0],
                        clients[c].userId))
  /\ UNCHANGED lookups

\* ircClient.on('kick'): the nick of a user's client was kicked from a
\* channel it had joined; the bot user is looked up first.
Kick(u) ==
  /\ \E c \in ClientIds(Cur) :
       clients[c].userId = u /\ clients[c].names /\ ~clients[c].ended
  /\ launch("kick", u)
  /\ UNCHANGED <<nickVars, statusChanges, disconnectOnAway, ircClients, clients,
                 messageQueues, msgs, pushed, sent, slackPosts>>

\* The loop of the kick handler without its test of the nick.
RECURSIVE kickedEveryone(_, _)
kickedEveryone(s, u) ==
  IF \A v \in Users : s.ircClients[v] = NoClient THEN s
  ELSE LET v == CHOOSE w \in Users : s.ircClients[w] # NoClient IN
       kickedEveryone([s EXCEPT !.clients[s.ircClients[v]] = disconnect(@),
                                !.ircClients[v] = NoClient], u)

\* ... for each key of ircClients whose client has the kicked nick:
\* sendToSlack(reply); disconnect(); delete this.ircClients[key].
kicked(s, u) ==
  LET c == s.ircClients[u] IN
  IF c = NoClient THEN s
  ELSE [s EXCEPT !.clients[c] = disconnect(@), !.ircClients[u] = NoClient]

\* The kick handler after its lookup.  Its sendToSlack(userName(botUser),
\* chan, reply) starts a relay of the notice, authored by the bot.
KickDone(l) ==
  /\ l \in lookups /\ l.kind = "kick"
  /\ lookups' =
       IF ircClients[l.user] = NoClient THEN land(l)
       ELSE land(l) \cup
              {[kind |-> "relay", user |-> BotName,
                n |-> 1 + Cardinality({k \in land(l) : k.kind = "relay" /\ k.user = BotName})]}
  /\ Apply(kicked(Cur, l.user))

\* --------------------------------------------------- IRC events: the relay
\* currentShadowNicks: the nicks of the clients in the pool.  The nick of a
\* user's client is written as the user's id.
currentShadowNicks(s) == {u \in Users : s.ircClients[u] # NoClient}

\* ircClient.on('message' / 'notice' / 'action') -> sendToSlack(author, to,
\* text) for a mapped channel: getSlackChannelByName is looked up first.  A
\* message authored by the nick of a user's client is one that client said,
\* so the client is the user's pool entry and ready when it is received.
IrcMessage(author) ==
  /\ author \in Users => /\ ircClients[author] # NoClient
                         /\ connectionState(clients[ircClients[author]]) = "ready"
  /\ launch("relay", author)
  /\ UNCHANGED <<nickVars, statusChanges, disconnectOnAway, ircClients, clients,
                 messageQueues, msgs, pushed, sent, slackPosts>>

\* ... .then(slackChannel => ...) for a channel the bot is in: nothing for an
\* author among currentShadowNicks() now, else chat.postMessage.
RelayDone(l) ==
  /\ l \in lookups /\ l.kind = "relay"
  /\ lookups' = land(l)
  /\ slackPosts' = IF l.user \in currentShadowNicks(Cur) THEN slackPosts
                   ELSE slackPosts \cup {l.user}
  /\ UNCHANGED <<nickVars, statusChanges, disconnectOnAway, ircClients, clients,
                 messageQueues, msgs, pushed, sent>>

\* ------------------------------------------------- Slack events: messages
\* rtm.on('message') for a plain message of a user (no files, no subtype):
\* slack.web.users.info is looked up first.
SlackMessage(u, chan, text) ==
  /\ Len(msgs) < MaxMsgs
  /\ msgs' = Append(msgs, [user |-> u, channel |-> chan, text |-> text,
                           stage |-> "userinfo", client |-> NoClient,
                           rdy |-> NoClient, to |-> "none", reply |-> "none",
                           about |-> "none"])
  /\ UNCHANGED <<nickVars, statusChanges, disconnectOnAway, ircClients, clients,
                 messageQueues, lookups, pushed, sent, slackPosts>>

\* ... .then(resp => this.queueMessage(user, final)), which starts with the
\* lookup slack.web.conversations.info.
UserInfoDone(m) ==
  /\ m \in 1..Len(msgs) /\ msgs[m].stage = "userinfo"
  /\ msgs' = [msgs EXCEPT ![m].stage = "chaninfo"]
  /\ UNCHANGED <<nickVars, statusChanges, disconnectOnAway, ircClients, clients,
                 messageQueues, lookups, pushed, sent, slackPosts>>

\* The parts of a command text that processCommandMessage's regex
\* ^(\w+)\s?(\S+)?\s?(.*)$ finds after the command character: the command,
\* its argument and what remains.  A text of the command character alone
\* (or followed by no word) does not match.
matches(text) == Len(text) >= 2
command(text) == text[2]
hasRemaining(text) == Len(text) >= 4
remaining(text) == SubSeq(text, 4, Len(text))

\* The test of privMessage taking a shared channel for a direct message.
DirectChannelsWithShared == {"D-bot", "#general"}

\* message.channel.startsWith('D'): a direct message to the bot.
DirectChannels == {"D-bot"}

\* A reply of a command: slack.rtm.sendMessage to message.channel (the
\* channel the command was typed in) or to the channel im.open gives (the
\* direct messages of the bot and the user).  msgs[m].reply is the last one.
replied(s, m, where) == [s EXCEPT !.msgs[m].reply = where, !.msgs[m].stage = "done"]

\* The default branch of processCommandMessage, with a reply.
unknownCommandAnswered(s, m) == replied(s, m, "channel")

\* The default branch of processCommandMessage: logger.debug only.
unknownCommand(s, m) == [s EXCEPT !.msgs[m].stage = "done"]

\* A 'msg' without text, without its reply.
missingTextSilent(s, m) == [s EXCEPT !.msgs[m].stage = "done"]

\* A 'msg' without text: sendMessage('You must supply a message.',
\* message.channel).
missingText(s, m) == replied(s, m, "channel")

\* processCommandMessage: every command but a 'msg' without text starts with
\* a lookup (getIRCChannel, users.info, im.open); an unknown command is
\* logged; a text that does not match returns at once.
processCommandMessage(s, m) ==
  LET text == s.msgs[m].text IN
  IF ~matches(text) THEN [s EXCEPT !.msgs[m].stage = "done"]
  ELSE CASE command(text) = "online" -> [s EXCEPT !.msgs[m].stage = "onlineinfo"]
         [] command(text) = "topic" -> [s EXCEPT !.msgs[m].stage = "topicinfo"]
         [] command(text) = "reset" -> [s EXCEPT !.msgs[m].stage = "resetinfo"]
         [] command(text) = "msg" ->
              IF hasRemaining(text)
              THEN IF s.msgs[m].channel \in DirectChannels
                   THEN [s EXCEPT !.msgs[m].stage = "privinfo"]
                   ELSE [s EXCEPT !.msgs[m].stage = "warnim"]
              ELSE missingText(s, m)
         [] command(text) = "help" -> [s EXCEPT !.msgs[m].stage = "helpim"]
         [] OTHER -> unknownCommand(s, m)

\* The then-callback of conversations.info in queueMessage, for a message
\* outside a thread in a channel the lookup finds.
queueMessage(s, m) ==
  LET u == s.msgs[m].user
      ircChannel == channelMapping(s.msgs[m].channel)
      s1 == [s EXCEPT !.messageQueues[u].has = TRUE]
      c == s.ircClients[u]
      \* For the ordering claims: the client that was ready at the push, if any.
      rdy == IF c # NoClient /\ s.clients[c].connected THEN c ELSE NoClient
  IN
  IF isCommandMessage(s.msgs[m].text) THEN processCommandMessage(s1, m)
  ELSE IF ircChannel # "none"
  THEN sendMessagesToIRC(
         [s1 EXCEPT !.messageQueues[u] = push(@, ircChannel, m),
                    !.pushed[u] = Append(@, m),
                    !.msgs[m].stage = "queued",
                    !.msgs[m].to = ircChannel,
                    !.msgs[m].rdy = rdy], u)
  ELSE sendMessagesToIRC([s1 EXCEPT !.msgs[m].stage = "dropped"], u)

ChanInfoDone(m) ==
  /\ m \in 1..Len(msgs) /\ msgs[m].stage = "chaninfo"
  /\ Apply(queueMessage(Cur, m))
  /\ UNCHANGED lookups

\* resetIRC after its lookup: deleteClient(user); connectNewClient(user);
\* sendMessage('Resetting IRC client ...', message.channel).  msgs[m].client
\* records the client the reset has created.
resetIRC(s, m) ==
  LET u == s.msgs[m].user
      s1 == connectNewClient(deleteClient(s, u), u)
  IN replied([s1 EXCEPT !.msgs[m].client = s1.ircClients[u]], m, "channel")

ResetDone(m) ==
  /\ m \in 1..Len(msgs) /\ msgs[m].stage = "resetinfo"
  /\ Apply(resetIRC(Cur, m))
  /\ UNCHANGED lookups

\* A lookup of a message's handler chain fails: the catch logs, and the
\* message goes no further.
MessageLookupFailed(m) ==
  /\ m \in 1..Len(msgs)
  /\ msgs[m].stage \in {"userinfo", "chaninfo", "resetinfo", "onlineinfo", "onlineim",
                        "topicinfo", "helpim", "helpinfo", "warnim", "privinfo"}
  /\ msgs' = [msgs EXCEPT ![m].stage = "dropped"]
  /\ UNCHANGED <<nickVars, statusChanges, disconnectOnAway, ircClients, clients,
                 messageQueues, lookups, pushed, sent, slackPosts>>

\* The channel a queued message was pushed under.
destOf(s, m) == s.msgs[m].to

\* ------------------------------------------------------ commands (commands.js)
\* onlineIRCUsers after getIRCChannel: nothing in a channel without mapping,
\* else ircClient.once('names', ...) and NAMES is sent.
OnlineInfoDone(m) ==
  /\ m \in 1..Len(msgs) /\ msgs[m].stage = "onlineinfo"
  /\ Apply([Cur EXCEPT !.msgs[m].stage =
              IF channelMapping(msgs[m].channel) = "none" THEN "done" ELSE "onlinenames"])
  /\ UNCHANGED lookups

\* The channels the bot's own client is in.
IrcChannels == {"#irc-general", "#irc-random"}

\* The listeners that onlineIRCUsers registered with ircClient.once('names'),
\* called in the order of registration with the one event (chan, names):
\* without a query im.open is called for the list, with one the matches are
\* sent to message.channel.  about is the channel the event's names are of.
RECURSIVE namesListeners(_, _, _)
namesListeners(s, chan, m) ==
  IF m > Len(s.msgs) THEN s
  ELSE namesListeners(
         IF s.msgs[m].stage # "onlinenames" THEN s
         ELSE IF Len(s.msgs[m].text) >= 3
              THEN replied([s EXCEPT !.msgs[m].about = chan], m, "channel")
              ELSE [s EXCEPT !.msgs[m].about = chan, !.msgs[m].stage = "onlineim"],
         chan, m + 1)

\* A 'names' event of the bot's client for one of its channels, while a
\* listener of onlineIRCUsers is registered.
BotNames(chan) ==
  /\ \E m \in 1..Len(msgs) : msgs[m].stage = "onlinenames"
  /\ Apply(namesListeners(Cur, chan, 1))
  /\ UNCHANGED lookups

\* The list of onlineIRCUsers sent to message.channel.
OnlineImDoneToChannel(m) ==
  /\ m \in 1..Len(msgs) /\ msgs[m].stage = "onlineim"
  /\ Apply(replied(Cur, m, "channel"))
  /\ UNCHANGED lookups

\* ... im.open(...).then(resp => sendMessage(reply, resp.channel.id))
OnlineImDone(m) ==
  /\ m \in 1..Len(msgs) /\ msgs[m].stage = "onlineim"
  /\ Apply(replied(Cur, m, "dm"))
  /\ UNCHANGED lookups

\* ircTopic after getIRCChannel: nothing in a channel without mapping, else
\* ircClient.once('topic', ...) and TOPIC is sent.
TopicInfoDone(m) ==
  /\ m \in 1..Len(msgs) /\ msgs[m].stage = "topicinfo"
  /\ Apply([Cur EXCEPT !.msgs[m].stage =
              IF channelMapping(msgs[m].channel) = "none" THEN "done" ELSE "topicwait"])
  /\ UNCHANGED lookups

\* The listeners that ircTopic registered with ircClient.once('topic'), called
\* with the one event (chan, topic): sendMessage to message.channel.
RECURSIVE topicListeners(_, _, _)
topicListeners(s, chan, m) ==
  IF m > Len(s.msgs) THEN s
  ELSE topicListeners(
         IF s.msgs[m].stage # "topicwait" THEN s
         ELSE replied([s EXCEPT !.msgs[m].about = chan], m, "channel"),
         chan, m + 1)

\* A 'topic' event of the bot's client for one of its channels, while a
\* listener of ircTopic is registered.
BotTopic(chan) ==
  /\ \E m \in 1..Len(msgs) : msgs[m].stage = "topicwait"
  /\ Apply(topicListeners(Cur, chan, 1))
  /\ UNCHANGED lookups

\* commandHelp: im.open, then users.info of the bot user.
HelpImDone(m) ==
  /\ m \in 1..Len(msgs) /\ msgs[m].stage = "helpim"
  /\ Apply([Cur EXCEPT !.msgs[m].stage = "helpinfo"])
  /\ UNCHANGED lookups

\* ... .then(resp2 => ... resp2.profile.display_name_normalized ...): the
\* reply goes to the channel of im.open when the response has a profile of
\* its own; when it has not, the callback throws and the catch logs.
HelpInfoDone(m, profile) ==
  /\ m \in 1..Len(msgs) /\ msgs[m].stage = "helpinfo"
  /\ Apply(IF profile THEN replied(Cur, m, "dm") ELSE [Cur EXCEPT !.msgs[m].stage = "done"])
  /\ UNCHANGED lookups

\* privMessage outside a direct message: im.open, then the warning.
PrivWarnDone(m) ==
  /\ m \in 1..Len(msgs) /\ msgs[m].stage = "warnim"
  /\ Apply(replied(Cur, m, "dm"))
  /\ UNCHANGED lookups

\* privMessage in a direct message: users.info, then ircClient.whois.
PrivInfoDone(m) ==
  /\ m \in 1..Len(msgs) /\ msgs[m].stage = "privinfo"
  /\ Apply([Cur EXCEPT !.msgs[m].stage = "whois"])
  /\ UNCHANGED lookups

\* The callback of whois with a host: messageQueue[ircUser].push({ text:
\* msg }) and sendMessagesToIRC(user).  The object pushed is a new message,
\* with what remained of the command as its text.
privQueued(s, m) ==
  LET u == s.msgs[m].user
      ircUser == s.msgs[m].text[3]
      new == Len(s.msgs) + 1
  IN sendMessagesToIRC(
       [s EXCEPT !.msgs = Append([@ EXCEPT ![m].stage = "done"],
                                 [user |-> u, channel |-> s.msgs[m].channel,
                                  text |-> remaining(s.msgs[m].text),
                                  stage |-> "queued", client |-> NoClient,
                                  rdy |-> NoClient, to |-> ircUser, reply |-> "none",
                                  about |-> "none"]),
                 !.messageQueues[u] = push(@, ircUser, new),
                 !.pushed[u] = Append(@, new)], u)

\* The callback of whois, queueing whatever the answer.
PrivWhoisAnyHost(m, host) ==
  /\ m \in 1..Len(msgs) /\ msgs[m].stage = "whois"
  /\ Apply(privQueued(Cur, m))
  /\ UNCHANGED lookups

\* The callback of whois: res.host tells whether the nick is online; if not
\* sendMessage('... is not online.', message.channel).
PrivWhois(m, host) ==
  /\ m \in 1..Len(msgs) /\ msgs[m].stage = "whois"
  /\ Apply(IF host THEN privQueued(Cur, m) ELSE replied(Cur, m, "channel"))
  /\ UNCHANGED lookups

\* parseText(message.text) resolves: the then-callback of sendMessagesToIRC
\* calls say on the client the drain had read from the pool.
TransformDone(m) ==
  /\ m \in 1..Len(msgs) /\ msgs[m].stage = "parsing"
  /\ Apply(say(Cur, m, msgs[m].client, destOf(Cur, m)))
  /\ UNCHANGED lookups

\* The users.info of asyncReplace rejects: parseText's catch logs and yields
\* undefined, text.startsWith throws in the then-callback, the catch of
\* sendMessagesToIRC logs: nothing is said.
TransformFailed(m) ==
  /\ m \in 1..Len(msgs) /\ msgs[m].stage = "parsing"
  /\ Apply([Cur EXCEPT !.msgs[m].stage = "lost"])
  /\ UNCHANGED lookups

\* ------------------------------------------------- mentions (text transforms)
\* A text on Slack is a sequence of characters and of user references
\* <@U...>, each written as the id of its user.
\* asyncReplace(users.info, str, /<@(U\w+)\|?(\w+)?>/g) for references
\* without a readable part: each becomes '@' + userName(resp.user).
RECURSIVE asyncReplace(_)
asyncReplace(str) ==
  IF str = <<>> THEN <<>>
  ELSE (IF Head(str) \in Users THEN <<"@">> \o slackNames[Head(str)] ELSE <<Head(str)>>)
       \o asyncReplace(Tail(str))

\* The last position of the run of \S that starts at j (j - 1 if none does).
runEnd(str, j) ==
  LET ends == {e \in (j - 1)..Len(str) : \A k \in j..e : str[k] # " "}
  IN CHOOSE e \in ends : \A f \in ends : f <= e

\* currentShadowNicks as strings: the nick of every client in the pool.
currentNicks(s) == {s.clients[s.ircClients[u]].nick : u \in currentShadowNicks(s)}

\* .replace(SLACK_REGEX, (match, slackName) => ...) from position i on:
\* /@(\S+)/g takes '@' and the whole run of \S after it; the match becomes
\* ircNick(slackName) if that is the nick of a client in the pool.
RECURSIVE replaceSlackNames(_, _, _)
replaceSlackNames(s, str, i) ==
  IF i > Len(str) THEN <<>>
  ELSE IF str[i] = "@" /\ runEnd(str, i + 1) > i
  THEN LET e == runEnd(str, i + 1)
           nick == ircNick(SubSeq(str, i + 1, e))
       IN (IF nick \in currentNicks(s) THEN nick ELSE SubSeq(str, i, e))
          \o replaceSlackNames(s, str, e + 1)
  ELSE <<str[i]>> \o replaceSlackNames(s, str, i + 1)

\* parseText for a text of letters, '.', ',', ' ' and user references: the
\* replacements of entities, links and emoji leave such a text as it is.
parseText(s, str) == replaceSlackNames(s, asyncReplace(str), 1)

\* The end of the match of \S+${nickSuffix}\d? that starts at j, 0 if there
\* is none: \S+ is greedy, so the suffix is the last one the run reaches.
nickEnd(str, j) ==
  LET L == Len(nickSuffix)
      ks == {k \in (j + 1)..(runEnd(str, j) + 1) :
               k + L - 1 <= Len(str) /\ SubSeq(str, k, k + L - 1) = nickSuffix}
  IN IF ks = {} THEN 0
     ELSE LET k == CHOOSE x \in ks : \A y \in ks : y <= x
              e == k + L - 1
          IN IF e + 1 <= Len(str) /\ str[e + 1] \in Digits THEN e + 1 ELSE e

\* replaceUsernames from position i on: text.replace(this.nickRegex, (match,
\* slackNick) => ...) with nickRegex = @?(\S+${nickSuffix}\d?); the match
\* becomes the slackName of the client in the pool whose nick is slackNick.
RECURSIVE replaceUsernames(_, _, _)
replaceUsernames(s, str, i) ==
  IF i > Len(str) THEN <<>>
  ELSE LET j == IF str[i] = "@" /\ nickEnd(str, i + 1) # 0 THEN i + 1 ELSE i
           e == nickEnd(str, j)
       IN IF e = 0 THEN <<str[i]>> \o replaceUsernames(s, str, i + 1)
          ELSE LET slackNick == SubSeq(str, j, e)
                   owners == {u \in currentShadowNicks(s) :
                                s.clients[s.ircClients[u]].nick = slackNick}
               IN (IF owners # {}
                   THEN s.clients[s.ircClients[CHOOSE u \in owners : TRUE]].slackName
                   ELSE SubSeq(str, i, e))
                  \o replaceUsernames(s, str, e + 1)

\* A Slack message that starts with a reference to user u: asyncReplace
\* asks users.info for the name.
SlackMention(u, after) ==
  /\ relayed.at = "none"
  /\ relayed' = [at |-> "slack", user |-> u, ready |-> FALSE, after |-> after,
                 text |-> <<u>> \o after]
  /\ UNCHANGED <<statusChanges, disconnectOnAway, ircClients, clients, messageQueues,
                 msgs, lookups, pushed, sent, slackPosts, nickSuffix, slackNames,
                 ircClient, options, bridge>>

\* parseText resolves: the text as it is said on IRC.  ready records whether
\* the user mentioned had a connected client in the pool then.
ParseTextDone ==
  /\ relayed.at = "slack"
  /\ relayed' = [relayed EXCEPT
                   !.at = "irc",
                   !.ready = /\ ircClients[relayed.user] # NoClient
                             /\ clients[ircClients[relayed.user]].connected,
                   !.text = parseText(Cur, relayed.text)]
  /\ UNCHANGED <<statusChanges, disconnectOnAway, ircClients, clients, messageQueues,
                 msgs, lookups, pushed, sent, slackPosts, nickSuffix, slackNames,
                 ircClient, options, bridge>>

\* sendToSlack of a text with the same words on IRC: replaceUsernames(text).
ReplaceUsernames ==
  /\ relayed.at = "irc"
  /\ relayed' = [relayed EXCEPT !.at = "back",
                                !.text = replaceUsernames(Cur, relayed.text, 1)]
  /\ UNCHANGED <<statusChanges, disconnectOnAway, ircClients, clients, messageQueues,
                 msgs, lookups, pushed, sent, slackPosts, nickSuffix, slackNames,
                 ircClient, options, bridge>>

\* ---------------------------------------------------- the bot's own client
\* The keys of invertedMapping: the IRC side of the mapping, lower-cased by
\* the constructor.
invertedMapping(channel) ==
  CASE channel = "#irc-general" -> "#general"
    [] channel = "#irc-random" -> "#random"
    [] OTHER -> "none"

\* channel.toLowerCase() on the channel names of the model.
toLowerCase(channel) ==
  CASE channel = "#IRC-General" -> "#irc-general"
    [] channel = "#Other" -> "#other"
    [] OTHER -> channel

\* The invite handler's lookup: this.invertedMapping[channel].
inviteLookup(channel) == invertedMapping(channel)

\* ircClient.on('invite', (channel, from) => ...): join if the lookup finds
\* the channel.
Invite(channel) ==
  /\ ircClient' = [invited |-> ircClient.invited \cup {channel},
                   chans |-> IF inviteLookup(channel) # "none"
                             THEN ircClient.chans \cup {channel} ELSE ircClient.chans]
  /\ UNCHANGED <<statusChanges, disconnectOnAway, ircClients, clients, messageQueues,
                 msgs, lookups, pushed, sent, slackPosts, nickSuffix, slackNames,
                 relayed, options, bridge>>

\* new Bot(options)
Construct ==
  /\ bridge = "none"
  /\ bridge' = constructor(options)
  /\ UNCHANGED <<statusChanges, disconnectOnAway, ircClients, clients, messageQueues,
                 msgs, lookups, pushed, sent, slackPosts, nickSuffix, slackNames,
                 relayed, ircClient, options>>

\* --------------------------------------------------------- specifications
\* The life cycle of one user's clients: the events that acquire or release
\* a client or touch its timer; the only messages are resets.
PoolUsers == {"U1"}

Next ==
  \/ \E u \in PoolUsers : UserTyping(u)
  \/ \E l \in lookups : TypingDone(l)
  \/ \E u \in PoolUsers, p \in {"active", "away"} : PresenceChange(u, p)
  \/ \E l \in lookups : PresenceDone(l)
  \/ \E members \in SUBSET PoolUsers \ {{}} : CheckActiveUsers(members)
  \/ \E l \in lookups, p \in {"active", "away"} : ScanDone(l, p)
  \/ \E l \in lookups : LookupFailed(l)
  \/ \E c \in 1..MaxClients : ConnectCallback(c)
  \/ \E c \in 1..MaxClients : Names(c)
  \/ \E c \in 1..MaxClients : ClientError(c)
  \/ \E c \in 1..MaxClients : ClientAbort(c)
  \/ \E c \in 1..MaxClients : SocketEnd(c)
  \/ \E c \in 1..MaxClients, h \in BOOLEAN : TimerFire(c, h)
  \/ \E u \in PoolUsers : SlackMessage(u, "#general", <<".", "reset">>)
  \/ \E m \in 1..MaxMsgs : UserInfoDone(m)
  \/ \E m \in 1..MaxMsgs : ChanInfoDone(m)
  \/ \E m \in 1..MaxMsgs : ResetDone(m)
  \/ \E m \in 1..MaxMsgs : MessageLookupFailed(m)

Spec == Init /\ [][Next]_vars

\* The acquire triggers of one user (typing, presence, the scan of active
\* users, a message, names) in any interleaving, with the release by
\* timeout that empties the pool again in between.
NextAcquire ==
  \/ \E u \in PoolUsers : UserTyping(u)
  \/ \E l \in lookups : TypingDone(l)
  \/ \E u \in PoolUsers : PresenceChange(u, "active")
  \/ \E l \in lookups : PresenceDone(l)
  \/ \E members \in SUBSET PoolUsers \ {{}} : CheckActiveUsers(members)
  \/ \E l \in lookups, p \in {"active", "away"} : ScanDone(l, p)
  \/ \E u \in PoolUsers : SlackMessage(u, "#general", <<"hi">>)
  \/ \E m \in 1..MaxMsgs : UserInfoDone(m)
  \/ \E m \in 1..MaxMsgs : ChanInfoDone(m)
  \/ \E c \in 1..MaxClients : ConnectCallback(c)
  \/ \E c \in 1..MaxClients : Names(c)
  \/ \E c \in 1..MaxClients, h \in BOOLEAN : TimerFire(c, h)

SpecAcquire == Init /\ [][NextAcquire]_vars

\* The away timer of one user's clients: armed by the connect callback and
\* by presence 'away', cleared by presence 'active', and the releases by
\* timeout and by abort.
NextTimer ==
  \/ \E u \in PoolUsers : UserTyping(u)
  \/ \E l \in lookups : TypingDone(l)
  \/ \E u \in PoolUsers, p \in {"active", "away"} : PresenceChange(u, p)
  \/ \E l \in lookups : PresenceDone(l)
  \/ \E c \in 1..MaxClients : ConnectCallback(c)
  \/ \E c \in 1..MaxClients : ClientAbort(c)
  \/ \E c \in 1..MaxClients, h \in BOOLEAN : TimerFire(c, h)
  \/ \E c \in 1..MaxClients : SocketEnd(c)

SpecTimer == Init /\ [][NextTimer]_vars

\* The messages of one user: their lookups, the queue, the drain and the
\* text transforms, with the client events that make the connection ready
\* and take it away.
QueueTexts == {<<"hi">>, <<"<@U>", "hi">>}
QueueChannels == {"#general", "#random"}

NextQueue ==
  \/ \E u \in PoolUsers, chan \in QueueChannels, text \in QueueTexts :
       SlackMessage(u, chan, text)
  \/ \E m \in 1..MaxMsgs : UserInfoDone(m)
  \/ \E m \in 1..MaxMsgs : ChanInfoDone(m)
  \/ \E m \in 1..MaxMsgs : TransformDone(m)
  \/ \E c \in 1..MaxClients : ConnectCallback(c)
  \/ \E c \in 1..MaxClients : Names(c)
  \/ \E c \in 1..MaxClients : ClientAbort(c)
  \/ \E c \in 1..MaxClients, h \in BOOLEAN : TimerFire(c, h)
  \/ \E c \in 1..MaxClients : SocketEnd(c)

SpecQueue == Init /\ [][NextQueue]_vars

\* The errors of one user's clients while they connect: the rejection of the
\* nickname, any other error, and the abort after the last retry.
NextError ==
  \/ \E u \in PoolUsers : UserTyping(u)
  \/ \E l \in lookups : TypingDone(l)
  \/ \E c \in 1..MaxClients : ConnectCallback(c)
  \/ \E c \in 1..MaxClients : ClientError(c)
  \/ \E c \in 1..MaxClients : ClientErrorOther(c)
  \/ \E c \in 1..MaxClients : ClientAbort(c)
  \/ \E c \in 1..MaxClients : SocketEnd(c)

SpecError == Init /\ [][NextError]_vars

\* The relay of IRC messages to Slack while the clients of one user come
\* and go: the echo of what a user's client said, and messages of others.
NextEcho ==
  \/ \E u \in PoolUsers : UserTyping(u)
  \/ \E l \in lookups : TypingDone(l)
  \/ \E c \in 1..MaxClients : ConnectCallback(c)
  \/ \E a \in PoolUsers \cup {"irc-user"} : IrcMessage(a)
  \/ \E l \in lookups : RelayDone(l)
  \/ \E l \in lookups : LookupFailed(l)
  \/ \E c \in 1..MaxClients : ClientAbort(c)
  \/ \E c \in 1..MaxClients, h \in BOOLEAN : TimerFire(c, h)
  \/ \E c \in 1..MaxClients : SocketEnd(c)

SpecEcho == Init /\ [][NextEcho]_vars

\* Two users side by side: one resets its client and is kicked (one kick at
\* a time), the other sends messages, and the clients of both fail (error,
\* abort, timeout).
NextIsolation ==
  \/ SlackMessage("U1", "#general", <<".", "reset">>)
  \/ SlackMessage("U2", "#general", <<"hi">>)
  \/ \E m \in 1..MaxMsgs : UserInfoDone(m)
  \/ \E m \in 1..MaxMsgs : ChanInfoDone(m)
  \/ \E m \in 1..MaxMsgs : ResetDone(m)
  \/ \E c \in 1..MaxClients : ConnectCallback(c)
  \/ \E c \in 1..MaxClients : Names(c)
  \/ \E c \in 1..MaxClients : ClientError(c)
  \/ \E c \in 1..MaxClients : ClientAbort(c)
  \/ \E c \in 1..MaxClients, h \in BOOLEAN : TimerFire(c, h)
  \/ lookups = {} /\ Kick("U1")
  \/ \E l \in lookups : KickDone(l)
  \/ \E l \in lookups : RelayDone(l)

\* No presence event happens here, so the two options they depend on are
\* fixed.
InitIsolation == Init /\ statusChanges /\ disconnectOnAway

SpecIsolation == InitIsolation /\ [][NextIsolation]_vars

\* Commands and plain messages of one user in the mapped channels.
CommandTexts == {<<"hi">>, <<".", "reset">>, <<"!", "topic">>}

NextCommand ==
  \/ \E u \in PoolUsers, chan \in QueueChannels, text \in CommandTexts :
       SlackMessage(u, chan, text)
  \/ \E m \in 1..MaxMsgs : UserInfoDone(m)
  \/ \E m \in 1..MaxMsgs : ChanInfoDone(m)
  \/ \E m \in 1..MaxMsgs : ResetDone(m)
  \/ \E m \in 1..MaxMsgs : TopicInfoDone(m)
  \/ \E chan \in IrcChannels : BotTopic(chan)
  \/ \E c \in 1..MaxClients : ConnectCallback(c)
  \/ \E c \in 1..MaxClients : Names(c)
  \/ \E c \in 1..MaxClients : SocketEnd(c)

SpecCommand == InitIsolation /\ [][NextCommand]_vars

\* Liveness of the message path: the callbacks of the network-B client and
\* the lookups and transforms in flight eventually run; events of network A
\* and failures of the connection need not happen.
\* The commands, typed in a mapped channel and in a direct message to the
\* bot, with the connection a reset opens.
DispatchChannels == {"#general", "D-bot"}
DispatchTexts == {<<".", "online">>, <<".", "online", "q">>, <<".", "topic">>,
                  <<".", "reset">>, <<".", "help">>, <<".", "msg", "nick">>,
                  <<".", "msg", "nick", "hi">>, <<".", "bogus">>, <<".">>}
NextDispatch ==
  \/ \E u \in PoolUsers, chan \in DispatchChannels, text \in DispatchTexts :
       SlackMessage(u, chan, text)
  \/ \E m \in 1..MaxMsgs : UserInfoDone(m)
  \/ \E m \in 1..MaxMsgs : ChanInfoDone(m)
  \/ \E m \in 1..MaxMsgs : ResetDone(m)
  \/ \E m \in 1..MaxMsgs : OnlineInfoDone(m)
  \/ \E chan \in IrcChannels : BotNames(chan)
  \/ \E m \in 1..MaxMsgs : OnlineImDone(m)
  \/ \E m \in 1..MaxMsgs : TopicInfoDone(m)
  \/ \E chan \in IrcChannels : BotTopic(chan)
  \/ \E m \in 1..MaxMsgs : HelpImDone(m)
  \/ \E m \in 1..MaxMsgs, profile \in BOOLEAN : HelpInfoDone(m, profile)
  \/ \E m \in 1..MaxMsgs : PrivWarnDone(m)
  \/ \E m \in 1..MaxMsgs : PrivInfoDone(m)
  \/ \E m \in 1..MaxMsgs, host \in BOOLEAN : PrivWhois(m, host)
  \/ \E c \in 1..MaxClients : ConnectCallback(c)
  \/ \E c \in 1..MaxClients : Names(c)

SpecDispatch == InitIsolation /\ [][NextDispatch]_vars

\* Plain messages from a mapped channel, from a channel without mapping and
\* from a direct message, with the client events that drain the queue.
UnmappedChannels == {"#general", "#lobby", "D-bot"}
NextUnmapped ==
  \/ \E u \in PoolUsers, chan \in UnmappedChannels : SlackMessage(u, chan, <<"hi">>)
  \/ \E m \in 1..MaxMsgs : UserInfoDone(m)
  \/ \E m \in 1..MaxMsgs : ChanInfoDone(m)
  \/ \E c \in 1..MaxClients : ConnectCallback(c)
  \/ \E c \in 1..MaxClients : Names(c)
  \/ \E c \in 1..MaxClients : ClientAbort(c)

SpecUnmapped == Init /\ [][NextUnmapped]_vars

\* Messages with a user reference, whose transform looks the user up and
\* may fail, and plain ones, with the client events that drain the queue.
NextResolve ==
  \/ \E u \in PoolUsers, text \in QueueTexts : SlackMessage(u, "#general", text)
  \/ \E m \in 1..MaxMsgs : UserInfoDone(m)
  \/ \E m \in 1..MaxMsgs : ChanInfoDone(m)
  \/ \E m \in 1..MaxMsgs : TransformDone(m)
  \/ \E m \in 1..MaxMsgs : TransformFailed(m)
  \/ \E c \in 1..MaxClients : ConnectCallback(c)
  \/ \E c \in 1..MaxClients : Names(c)

SpecResolve == Init /\ [][NextResolve]_vars

\* Names and suffixes of several shapes, the clients typing users get, and
\* a mention of a user's name on its way to IRC and back.
SlackNames ==
  {<<"a", "n", "a">>, <<"a", ".", "b">>,
   <<"a", "n", "a", " ", "m", "a", "r", "i", "a">>,
   <<"a", ".", "v", "e", "r", "y", ".", "l", "o", "n", "g", ".", "n", "a", "m", "e", ".", "x">>}
Suffixes == {<<"-", "s", "l">>, <<"-", "i", "r", "c", "-", "s", "h", "a", "d", "o", "w", "-", "o", "f", "-", "m", "e", "-">>}
Afters == {<<>>, <<" ", "h", "i">>, <<",", " ", "h", "i">>}
MentionUsers == {"U1", "U2"}
InitNames ==
  /\ InitBot /\ Constructed /\ statusChanges /\ disconnectOnAway
  /\ nickSuffix \in Suffixes
  /\ slackNames \in {f \in [Users -> SlackNames \cup {SlackbotName}] :
                        /\ f["USLACKBOT"] = SlackbotName
                        /\ \A u \in MentionUsers : f[u] \in SlackNames}

NextNames ==
  \/ \E u \in MentionUsers : UserTyping(u)
  \/ \E l \in lookups : TypingDone(l)
  \/ \E c \in 1..MaxClients : ConnectCallback(c)
  \/ \E u \in MentionUsers, after \in Afters : SlackMention(u, after)
  \/ ParseTextDone
  \/ ReplaceUsernames

SpecNames == InitNames /\ [][NextNames]_vars

\* The events of the bot's own client that name an IRC channel: invites, in
\* several letter cases, and the messages relayed to Slack, while a user's
\* client comes up.
InviteChannels == {"#irc-general", "#IRC-General", "#other", "#Other"}
NextInvite ==
  \/ \E channel \in InviteChannels : Invite(channel)
  \/ \E u \in PoolUsers : UserTyping(u)
  \/ \E l \in lookups : TypingDone(l)
  \/ \E c \in 1..MaxClients : ConnectCallback(c)
  \/ \E a \in PoolUsers \cup {"irc-user"} : IrcMessage(a)
  \/ \E l \in lookups : RelayDone(l)

SpecInvite == InitIsolation /\ [][NextInvite]_vars

\* The constructor, called with every combination of what it tests.
OptionSets ==
  [server : BOOLEAN, nickname : BOOLEAN, channelMapping : BOOLEAN, token : BOOLEAN,
   validMapping : BOOLEAN, imgur : BOOLEAN, muteSlackbot : {FALSE}]
InitConstruct ==
  /\ InitBot
  /\ nickSuffix = DefaultSuffix /\ slackNames = DefaultNames
  /\ options \in OptionSets /\ bridge = "none"

NextConstruct == Construct

SpecConstruct == InitConstruct /\ [][NextConstruct]_vars

\* Plain messages of Slackbot and of a user in a mapped channel, with the
\* muteSlackbot option set, and the client events that drain the queues.
InitSlackbot ==
  /\ InitBot /\ statusChanges /\ disconnectOnAway
  /\ options = [FullOptions EXCEPT !.muteSlackbot = TRUE] /\ bridge = "bot"
  /\ nickSuffix = DefaultSuffix /\ slackNames = DefaultNames

NextSlackbot ==
  \/ \E u \in {"U1", "USLACKBOT"} : SlackMessage(u, "#general", <<"hi">>)
  \/ \E m \in 1..MaxMsgs : UserInfoDone(m)
  \/ \E m \in 1..MaxMsgs : ChanInfoDone(m)
  \/ \E c \in 1..MaxClients : ConnectCallback(c)
  \/ \E c \in 1..MaxClients : Names(c)

SpecSlackbot == InitSlackbot /\ [][NextSlackbot]_vars

\* The topic and online commands of one user in the two mapped channels and
\* the names and topic events of the bot's client.
OnlineTexts == {<<".", "online">>, <<".", "online", "q">>, <<".", "topic">>}

NextOnline ==
  \/ \E u \in PoolUsers, chan \in QueueChannels, text \in OnlineTexts :
       SlackMessage(u, chan, text)
  \/ \E m \in 1..MaxMsgs : UserInfoDone(m)
  \/ \E m \in 1..MaxMsgs : ChanInfoDone(m)
  \/ \E m \in 1..MaxMsgs : OnlineInfoDone(m)
  \/ \E m \in 1..MaxMsgs : TopicInfoDone(m)
  \/ \E chan \in IrcChannels : BotNames(chan)
  \/ \E chan \in IrcChannels : BotTopic(chan)
  \/ \E m \in 1..MaxMsgs : OnlineImDone(m)

SpecOnline == InitIsolation /\ [][NextOnline]_vars

\* The away timer of one user's client with messages that drain: armed by
\* the connect callback and by presence 'away', cleared by presence
\* 'active', restarted by every drain, and the release by timeout.
NextDrain ==
  \/ \E u \in PoolUsers : SlackMessage(u, "#general", <<"hi">>)
  \/ \E m \in 1..MaxMsgs : UserInfoDone(m)
  \/ \E m \in 1..MaxMsgs : ChanInfoDone(m)
  \/ \E u \in PoolUsers, p \in {"active", "away"} : PresenceChange(u, p)
  \/ \E l \in lookups : PresenceDone(l)
  \/ \E c \in 1..MaxClients : ConnectCallback(c)
  \/ \E c \in 1..MaxClients : Names(c)
  \/ \E c \in 1..MaxClients, h \in BOOLEAN : TimerFire(c, h)
  \/ \E c \in 1..MaxClients : SocketEnd(c)

SpecDrain == InitIsolation /\ [][NextDrain]_vars

ReadyUsers == {"U1"}

NextReady ==
  \/ \E u \in ReadyUsers, chan \in QueueChannels : SlackMessage(u, chan, <<"hi">>)
  \/ \E m \in 1..MaxMsgs : UserInfoDone(m)
  \/ \E m \in 1..MaxMsgs : ChanInfoDone(m)
  \/ \E c \in 1..MaxClients : ConnectCallback(c)
  \/ \E c \in 1..MaxClients : Names(c)
  \/ \E c \in 1..MaxClients : ClientAbort(c)

FairReady ==
  /\ Init /\ [][NextReady]_vars
  /\ \A m \in 1..MaxMsgs : WF_vars(UserInfoDone(m)) /\ WF_vars(ChanInfoDone(m))
  /\ \A c \in 1..MaxClients :
       WF_vars(ConnectCallback(c)) /\ WF_vars(Names(c))

\* ------------------------------------------------------------------ claims
owned(u) == {c \in 1..Len(clients) : clients[c].userId = u}
stateOf(c) == connectionState(clients[c])
pos(seq, x) == CHOOSE i \in 1..Len(seq) : seq[i] = x
inQueue(m) ==
  LET q == messageQueues[msgs[m].user] IN
  \E k \in 1..Len(q.chans) : \E i \in 1..Len(q.chans[k].msgs) : q.chans[k].msgs[i] = m
wasPushed(m) == \E i \in 1..Len(pushed[msgs[m].user]) : pushed[msgs[m].user][i] = m
sayOf(m) == {i \in 1..Len(sent[msgs[m].user]) : sent[msgs[m].user][i].msg = m}

\* C1: in every reachable state each user has at most one client that is not
\* closed (connecting, ready or disconnecting), the pool entry included.
AtMostOneOpenConnection ==
  \A u \in Users : Cardinality({c \in owned(u) : stateOf(c) # "closed"}) <= 1

\* C2: single-flight acquire.  Every client of a user that disconnect() was
\* not called on is the user's pool entry, so at most one exists, whatever
\* the number of acquire triggers processed or still in flight: a client is
\* created only into an empty pool entry, and an acquire that finds a
\* connecting or ready client creates nothing.
SingleFlightAcquire ==
  \A u \in Users :
    LET live == {c \in owned(u) : clients[c].releases = 0} IN
    /\ Cardinality(live) <= 1
    /\ live = IF ircClients[u] = NoClient THEN {} ELSE {ircClients[u]}
    /\ Cardinality(owned(u)) =
         Cardinality({c \in owned(u) : clients[c].releases > 0}) + Cardinality(live)

\* Two queued messages of a user have each triggered an acquire while a
\* scan or typing lookup for the same user is still in flight, and one
\* client, still connecting, is all that was created.
SingleFlightWitness ==
  \E u \in Users :
    /\ Len(clients) = 1 /\ ircClients[u] = 1 /\ stateOf(1) = "connecting"
    /\ Cardinality({m \in 1..Len(msgs) : msgs[m].user = u /\ msgs[m].stage = "queued"}) >= 2
    /\ \E l \in lookups : l.user = u /\ l.kind \in {"typing", "scan", "active"}

\* C3: FIFO delivery.  For every user and destination channel the calls of
\* client.say are in the order of the pushes.
FifoDelivery ==
  \A u \in Users : \A i, j \in 1..Len(sent[u]) :
    (i < j /\ sent[u][i].chan = sent[u][j].chan)
      => pos(pushed[u], sent[u][i].msg) < pos(pushed[u], sent[u][j].msg)

\* C4: no enqueued envelope is lost.  An envelope that has left the queue
\* and was handed to client.say was handed to a ready connection (it is
\* never queued again, so this is its only send).
NoEnvelopeLost ==
  \A m \in 1..Len(msgs) :
    msgs[m].stage = "sent" => \E i \in sayOf(m) : sent[msgs[m].user][i].live

\* C5: an envelope is out of its queue only once its send was attempted.
RemovedOnlyAfterSend ==
  \A m \in 1..Len(msgs) : (wasPushed(m) /\ ~inQueue(m)) => sayOf(m) # {}

\* C6 (as claimed): once a user's connection is ready, every envelope then
\* queued for the user is sent, with no further event of network A.
readyEntry(u) ==
  ircClients[u] # NoClient /\ stateOf(ircClients[u]) = "ready"
queueOf(u) == {m \in 1..Len(msgs) : msgs[m].user = u /\ msgs[m].stage = "queued"}
QueuedBeforeReadySentFirst ==
  \A u \in Users : \A i, j \in 1..Len(sent[u]) :
    LET a == sent[u][i].msg
        b == sent[u][j].msg
    IN ~(/\ i < j
         /\ msgs[a].rdy # NoClient /\ sent[u][j].client = msgs[a].rdy
         /\ msgs[b].rdy = NoClient
         /\ pos(pushed[u], b) < pos(pushed[u], a))

\* C8: the messages waiting under one (user, channel) are in the order of
\* their arrival from network A (the order of their numbers).
QueuedInArrivalOrder ==
  \A u \in Users : \A k \in 1..Len(messageQueues[u].chans) :
    LET q == messageQueues[u].chans[k].msgs IN
    \A i, j \in 1..Len(q) : i < j => q[i] < q[j]

\* C9: when a pending away timer of client c fires while c is the pool
\* entry, c is released: disconnect() is called on it and the pool entry is
\* removed; and no client is ever released twice.
TimeoutReleasesOnce ==
  /\ [][\A c \in 1..MaxClients, h \in BOOLEAN :
          (TimerFire(c, h) /\ ircClients[clients[c].userId] = c)
            => /\ ircClients'[clients[c].userId] = NoClient
               /\ clients'[c].quit /\ clients'[c].releases = 1
       ]_vars
  /\ [](\A c \in 1..Len(clients) : clients[c].releases <= 1)

\* The first client of a user was ready, has been released by its timeout
\* (nothing else releases a client and leaves its socket open here), and a
\* second timer armed on it is still pending.
TimeoutReleaseWitness ==
  /\ Len(clients) >= 1
  /\ clients[1].connected /\ stateOf(1) = "disconnecting"
  /\ clients[1].releases = 1 /\ ircClients[clients[1].userId] = NoClient
  /\ clients[1].timer \/ clients[1].leaked > 0

\* C10: a timer armed on a client that has been torn down never releases a
\* later client of the same user: a timer that fires for a client that is
\* no longer the pool entry leaves the pool as it is.
StaleTimerNeverReleases ==
  [][\A c \in 1..MaxClients, h \in BOOLEAN :
       (TimerFire(c, h) /\ ircClients[clients[c].userId] # c)
         => ircClients' = ircClients
    ]_vars

\* C11: after clearAwayTimer on a user's pool entry (client.timer is not
\* pending and has not been set again), no timer releases that entry: a
\* timer that fires for a pool entry whose client.timer is not pending
\* leaves the pool as it is.
NoTimeoutAfterClear ==
  [][\A c \in 1..MaxClients, h \in BOOLEAN :
       (TimerFire(c, h) /\ ircClients[clients[c].userId] = c /\ ~clients[c].timer)
         => ircClients' = ircClients
    ]_vars

\* C12: cancellation.  When the text transform of a message resolves after
\* the client its drain had read from the pool was released, the completion
\* does nothing: client.say is called on no client.
CancelledTransformIsNoOp ==
  [][\A m \in 1..MaxMsgs :
       (TransformDone(m) /\ clients[msgs[m].client].releases > 0) => sent' = sent
    ]_vars

\* C13: when the client of a drain is no longer ready, the envelopes the
\* drain has not yet said are still in their queue (from where the next
\* drain on a ready client sends them).
UnsentStayQueued ==
  \A m \in 1..Len(msgs) :
    (msgs[m].stage = "parsing" /\ stateOf(msgs[m].client) # "ready") => inQueue(m)

\* C14: release is idempotent.  In every reachable state deleteClient of a
\* user without pool entry changes nothing, deleteClient leaves the user
\* without pool entry, and a second deleteClient changes nothing more; so a
\* timer that fires for a user without pool entry (its client was released
\* before) changes neither the pool nor the queues, and calls disconnect()
\* on no client.
ReleaseIdempotent ==
  /\ [](\A u \in Users :
          LET s1 == deleteClient(Cur, u) IN
          /\ s1.ircClients[u] = NoClient
          /\ deleteClient(s1, u) = s1
          /\ (ircClients[u] = NoClient => s1 = Cur))
  /\ [][\A c \in 1..MaxClients, h \in BOOLEAN :
          (TimerFire(c, h) /\ ircClients[clients[c].userId] = NoClient)
            => /\ ircClients' = ircClients /\ messageQueues' = messageQueues
               /\ \A d \in 1..Len(clients) :
                    /\ clients'[d].releases = clients[d].releases
                    /\ clients'[d].quit = clients[d].quit
                    /\ d # c => clients'[d] = clients[d]
       ]_vars

\* A user without pool entry whose released client is closed and still has
\* a timer pending: the release that timer asks for finds nothing to do.
ReleaseAgainWitness ==
  \E u \in Users :
    /\ ircClients[u] = NoClient
    /\ deleteClient(Cur, u) = Cur
    /\ \E c \in owned(u) :
         /\ stateOf(c) = "closed" /\ clients[c].releases = 1
         /\ clients[c].timer /\ clients[c].leaked > 0

\* C15: closed is terminal and a released client never becomes ready: once
\* disconnect() was called on a client or its socket has ended, no event
\* takes it back to an earlier state, and its connect callback, arriving
\* late, does not set client.connected.
ReleasedNeverMarkedReady ==
  [][\A c \in 1..Len(clients) :
       /\ clients[c].ended => clients'[c].ended
       /\ clients[c].quit => clients'[c].quit
       /\ (clients[c].quit \/ clients[c].ended)
            => clients'[c].connected = clients[c].connected
    ]_vars

AbortReleasesThenFresh ==
  [][/\ \A c \in 1..MaxClients :
          ClientAbort(c)
            => /\ ircClients'[clients[c].userId] = NoClient
               /\ connectionState(clients'[c]) = "closed"
               /\ \A d \in 1..Len(clients) : d # c => clients'[d] = clients[d]
               /\ Len(clients') = Len(clients)
               /\ messageQueues' = messageQueues
     /\ \A m \in 1..MaxMsgs :
          (/\ ChanInfoDone(m)
           /\ ircClients[msgs[m].user] = NoClient
           /\ \E c \in owned(msgs[m].user) : stateOf(c) = "closed")
            => LET u == msgs[m].user IN
               /\ ircClients'[u] = Len(clients) + 1
               /\ clients' = Append(clients, freshClient(u))
               /\ msgs'[m].stage = "queued"
               /\ \E k \in 1..Len(messageQueues'[u].chans) :
                    \E i \in 1..Len(messageQueues'[u].chans[k].msgs) :
                      messageQueues'[u].chans[k].msgs[i] = m
    ]_vars

\* The first client of a user aborted; a later message created the second
\* one, which is the pool entry and has sent a message.
AbortFreshWitness ==
  \E u \in Users :
    /\ Len(clients) >= 2 /\ clients[1].userId = u
    /\ stateOf(1) = "closed" /\ ircClients[u] = 2
    /\ \E i \in 1..Len(sent[u]) : sent[u][i].client = 2 /\ sent[u][i].live

\* C19: echo prevention.  A message authored by the nick of a client that
\* was in the pool when the message was received is never posted to Slack:
\* the completion of its relay posts nothing.
EchoNeverPosted ==
  [][\A l \in lookups :
       (RelayDone(l) /\ l.user \in Users) => slackPosts' = slackPosts
    ]_vars

\* C18: error isolation.  An error, abort, timeout, reset or kick of one
\* user's client leaves every other user's pool entry, clients (state and
\* timers included), queues and sent messages as they were.  (The channel
\* mapping is fixed by the constructor and written by no handler.)
othersUntouched(u) ==
  \A v \in Users \ {u} :
    /\ ircClients'[v] = ircClients[v]
    /\ messageQueues'[v] = messageQueues[v]
    /\ sent'[v] = sent[v]
    /\ \A d \in 1..Len(clients) : clients[d].userId = v => clients'[d] = clients[d]
startsWithPrefix(m) == msgs[m].text[1] \in commandCharacters
CommandsNeverQueued ==
  /\ [][\A m \in 1..MaxMsgs :
          (ChanInfoDone(m) /\ startsWithPrefix(m))
            => /\ messageQueues'[msgs[m].user].chans = messageQueues[msgs[m].user].chans
               /\ pushed' = pushed /\ sent' = sent
       ]_vars
  /\ [](\A m \in 1..Len(msgs) :
          startsWithPrefix(m) => ~inQueue(m) /\ ~wasPushed(m) /\ sayOf(m) = {})

\* A command was handled in a mapped channel while a plain message of the
\* same user and channel was waiting in the queue.
CommandWitness ==
  \E m1, m2 \in 1..Len(msgs) :
    /\ startsWithPrefix(m1) /\ msgs[m1].stage = "done"
    /\ ~startsWithPrefix(m2) /\ inQueue(m2)
    /\ msgs[m1].channel = msgs[m2].channel /\ msgs[m1].user = msgs[m2].user
    /\ channelMapping(msgs[m1].channel) # "none"

\* C21: (amended) a reply of a command goes to the direct messages of the
\* bot and the user exactly when the command is help, online without a
\* query, or a msg with text typed outside a direct message; the replies of
\* topic, reset, online with a query and of a msg without text go to the
\* channel the command was typed in.
isCommand(m, verb) ==
  startsWithPrefix(m) /\ matches(msgs[m].text) /\ command(msgs[m].text) = verb
privateReply(m) ==
  \/ isCommand(m, "help")
  \/ isCommand(m, "online") /\ Len(msgs[m].text) = 2
  \/ isCommand(m, "msg") /\ hasRemaining(msgs[m].text) /\ msgs[m].channel \notin DirectChannels
unknownVerb(m) ==
  /\ startsWithPrefix(m) /\ matches(msgs[m].text)
  /\ command(msgs[m].text) \notin {"online", "topic", "reset", "msg", "help"}
handledQuietly(m) ==
  /\ ircClients' = ircClients /\ clients' = clients
  /\ sent' = sent /\ pushed' = pushed /\ slackPosts' = slackPosts
  /\ messageQueues'[msgs[m].user].chans = messageQueues[msgs[m].user].chans
  /\ Len(msgs') = Len(msgs) /\ msgs'[m].stage = "done"
UnknownCommandDropped ==
  /\ [][\A m \in 1..MaxMsgs :
          (ChanInfoDone(m) /\ unknownVerb(m))
            => handledQuietly(m) /\ msgs'[m].reply = "none"]_vars
  /\ [](\A m \in 1..Len(msgs) :
          unknownVerb(m) => /\ msgs[m].reply = "none" /\ ~inQueue(m) /\ sayOf(m) = {}
                            /\ msgs[m].stage \in {"userinfo", "chaninfo", "dropped", "done"})

\* An unknown command was handled while its user had a connected client
\* with a running timer.
UnknownCommandWitness ==
  \E m \in 1..Len(msgs) :
    /\ unknownVerb(m) /\ msgs[m].stage = "done"
    /\ ircClients[msgs[m].user] # NoClient
    /\ clients[ircClients[msgs[m].user]].timer

\* C23: (amended) a command text that does not parse is handled without any
\* effect; a msg without text is answered in the channel it was typed in,
\* and has no other effect: nothing is queued or said, pool and clients
\* stay as they are.
unparsable(m) == startsWithPrefix(m) /\ ~matches(msgs[m].text)
msgWithoutText(m) == isCommand(m, "msg") /\ ~hasRemaining(msgs[m].text)
PrivMessageOnlyToPresent ==
  /\ [][\A m \in 1..MaxMsgs :
          /\ PrivWhois(m, FALSE)
               => /\ handledQuietly(m) /\ msgs'[m].reply = "channel"
                  /\ msgs[m].channel \in DirectChannels
          /\ PrivWhois(m, TRUE)
               => LET u == msgs[m].user
                      new == Len(msgs) + 1
                  IN /\ Len(msgs') = new /\ msgs'[new].to = msgs[m].text[3]
                     /\ msgs'[new].text = remaining(msgs[m].text)
                     /\ pushed'[u] = Append(pushed[u], new)
                     /\ msgs'[m].reply = "none"
                     /\ ircClients'[u] # NoClient]_vars
  /\ [](\A m \in 1..Len(msgs) :
          (msgs[m].channel \in DirectChannels /\ ~startsWithPrefix(m))
            => /\ wasPushed(m)
               /\ (inQueue(m) <=> msgs[m].stage = "queued")
               /\ msgs[m].stage \in {"queued", "parsing", "sent"}
               /\ \A i \in sayOf(m) : sent[msgs[m].user][i].chan = msgs[m].to)

\* The text of a msg was said to its target after the names of the user's
\* new client arrived.
PrivMessageWitness ==
  \E m \in 1..Len(msgs) :
    /\ msgs[m].channel \in DirectChannels /\ ~startsWithPrefix(m)
    /\ msgs[m].stage = "sent" /\ sayOf(m) # {}
    /\ clients[ircClients[msgs[m].user]].names

\* C25: a reset that is done has called disconnect on the client that was
\* the user's pool entry and has put one new client, connecting, in its
\* place; and while the client a reset has made is the pool entry, the
\* timer of an earlier client of the user does not take it out of the pool.
ResetGivesFreshConnection ==
  [][\A m \in 1..MaxMsgs :
       /\ ResetDone(m)
            => LET u == msgs[m].user
                   new == Len(clients) + 1
               IN /\ ircClients[u] # NoClient => clients'[ircClients[u]].quit
                  /\ ircClients'[u] = new /\ Len(clients') = new
                  /\ connectionState(clients'[new]) = "connecting"
       /\ \A c \in 1..MaxClients, handle \in BOOLEAN :
            ( /\ m <= Len(msgs) /\ isCommand(m, "reset") /\ msgs[m].stage = "done"
              /\ msgs[m].client # NoClient
              /\ ircClients[msgs[m].user] = msgs[m].client
              /\ TimerFire(c, handle)
              /\ c < msgs[m].client /\ clients[c].userId = msgs[m].user )
            => ircClients'[msgs[m].user] = msgs[m].client]_vars

\* C26: handling a plain message from a channel without mapping records no
\* push, says nothing of it and posts nothing to Slack; such a message is
\* never in a queue, never pushed, never said and never answered: once
\* handled it stays dropped.
unmapped(m) == ~startsWithPrefix(m) /\ msgs[m].channel \notin QueueChannels
UnmappedDropped ==
  /\ [][\A m \in 1..MaxMsgs :
          (ChanInfoDone(m) /\ unmapped(m))
            => /\ pushed' = pushed /\ slackPosts' = slackPosts
               /\ Len(msgs') = Len(msgs) /\ msgs'[m].stage = "dropped"]_vars
  /\ [](\A m \in 1..Len(msgs) :
          unmapped(m) => /\ ~inQueue(m) /\ ~wasPushed(m) /\ sayOf(m) = {}
                         /\ msgs[m].reply = "none" /\ msgs[m].to = "none"
                         /\ msgs[m].stage \in {"userinfo", "chaninfo", "dropped"})

\* A message from a channel without mapping was dropped although its user
\* had a client that had said another message.
UnmappedWitness ==
  \E m1, m2 \in 1..Len(msgs) :
    /\ unmapped(m1) /\ msgs[m1].stage = "dropped" /\ msgs[m1].channel = "#lobby"
    /\ msgs[m2].user = msgs[m1].user /\ msgs[m2].stage = "sent"
    /\ ircClients[msgs[m1].user] # NoClient

\* C27: a user has a queue object only once a message of theirs was pushed,
\* and none while every channel's queue in it is empty and the user's pool
\* entry is absent or closed.
allEmpty(u) ==
  \A k \in 1..Len(messageQueues[u].chans) : messageQueues[u].chans[k].msgs = <<>>
QueueEntryLifetime ==
  \A u \in Users :
    messageQueues[u].has
      => /\ pushed[u] # <<>>
         /\ ~(allEmpty(u) /\ (ircClients[u] = NoClient \/ stateOf(ircClients[u]) = "closed"))

\* C28: when the lookup of a user reference in a message's text fails or
\* yields no user, the transform still ends with a text and the message is
\* said: the step that ends the transform appends the message to what the
\* user's client has said.
ResolverFailureStillSends ==
  [][\A m \in 1..MaxMsgs :
       TransformFailed(m)
         => LET u == msgs[m].user IN
            /\ Len(sent'[u]) = Len(sent[u]) + 1
            /\ sent'[u][Len(sent'[u])].msg = m]_vars

\* C29: when a user who has a connected client in the pool is mentioned on
\* Slack, the text said on IRC has the nick of that client where the mention
\* was, and the same text relayed back to Slack has the user's name there,
\* with the rest of the text as it was.
MentionRoundTrip ==
  (relayed.ready /\ ircClients[relayed.user] # NoClient)
    => /\ relayed.at = "irc"
            => relayed.text = clients[ircClients[relayed.user]].nick \o relayed.after
       /\ relayed.at = "back"
            => relayed.text = slackNames[relayed.user] \o relayed.after

\* C30: the nick of every client is its user's name with '.' and ' ' turned
\* into '-', cut to SERVER_NICKLEN minus the length of the suffix, followed
\* by the suffix: it ends with the suffix, is at most SERVER_NICKLEN long,
\* and two clients of one name have one nick.
NickRule ==
  \A c \in 1..Len(clients) :
    LET nick == clients[c].nick
        name == clients[c].slackName
        L == Len(nickSuffix)
        base == Len(nick) - L
    IN /\ base >= 0 /\ SubSeq(nick, base + 1, Len(nick)) = nickSuffix
       /\ Len(nick) <= SERVER_NICKLEN
       /\ base = (IF Len(name) < SERVER_NICKLEN - L THEN Len(name) ELSE SERVER_NICKLEN - L)
       /\ \A i \in 1..base : nick[i] = (IF name[i] \in {".", " "} THEN "-" ELSE name[i])
       /\ \A d \in 1..Len(clients) : clients[d].slackName = name => clients[d].nick = nick

\* C31: the bot's client is in every channel it was invited to whose name,
\* in lower case, is an IRC channel of the mapping, and in no other channel.
InviteCaseInsensitive ==
  \A channel \in ircClient.invited :
    channel \in ircClient.chans <=> invertedMapping(toLowerCase(channel)) # "none"

\* C32: the constructor gives a bot exactly when the four required fields
\* are there and the channel mapping is valid, and throws a
\* ConfigurationError when a required field is missing.
ConstructsExactlyWhenRequired ==
  bridge # "none"
    => /\ bridge = "bot" <=> (hasRequired(options) /\ options.validMapping)
       /\ ~hasRequired(options) => bridge = "ConfigurationError"

\* C33: with the muteSlackbot option set, no message of the user USLACKBOT
\* is ever pushed to a queue or said on IRC.
SlackbotMuted ==
  options.muteSlackbot
    => \A m \in 1..Len(msgs) :
         msgs[m].user = "USLACKBOT" => ~wasPushed(m) /\ ~inQueue(m) /\ sayOf(m) = {}

\* C34: queued messages are sent only once the client is known to be in a
\* channel: every message said on IRC was said through a client that had
\* received a names event after its registration.
SentOnlyAfterNames ==
  \A u \in Users : \A i \in 1..Len(sent[u]) : clients[sent[u][i].client].names

\* C35: the reply to a topic or online command reports the topic or the
\* names of the IRC channel mapped to the channel the command was issued
\* in: each pending command consumes only the response to its own request.
RepliesAboutOwnChannel ==
  \A m \in 1..Len(msgs) :
    msgs[m].about # "none" => msgs[m].about = channelMapping(msgs[m].channel)

\* C36: a msg command typed in a shared channel (not a direct message to
\* the bot) never reaches the whois of its target, its text is never pushed
\* to a queue and never said on IRC, no message is derived from it, and the
\* only reply a msg with a text gets there is the warning in the direct
\* messages of the bot and the user.
inSharedChannel(m) == msgs[m].channel \in SlackChannels
MsgOutsideDirectMessage ==
  \A m \in 1..Len(msgs) :
    (isCommand(m, "msg") /\ inSharedChannel(m))
      => /\ msgs[m].stage \notin {"privinfo", "whois"}
         /\ ~wasPushed(m) /\ ~inQueue(m) /\ sayOf(m) = {}
         /\ \A n \in 1..Len(msgs) : inSharedChannel(n) => startsWithPrefix(n)
         /\ hasRemaining(msgs[m].text)
              => /\ msgs[m].reply \in {"none", "dm"}
                 /\ msgs[m].stage = "done" => msgs[m].reply = "dm"

\* A msg with a text typed in a shared channel was answered with the
\* warning, while a msg typed in the direct messages went on to its whois.
MsgOutsideWitness ==
  \E m1, m2 \in 1..Len(msgs) :
    /\ isCommand(m1, "msg") /\ inSharedChannel(m1) /\ hasRemaining(msgs[m1].text)
    /\ msgs[m1].stage = "done" /\ msgs[m1].reply = "dm"
    /\ isCommand(m2, "msg") /\ ~inSharedChannel(m2) /\ msgs[m2].stage = "whois"

\* C37: dropping a message (no command, from a channel without mapping)
\* leaves the pool as it is: no client is made for its author, no
\* connection is started and no away timer is set again.
DroppedLeavesPoolUnchanged ==
  [][\A m \in 1..MaxMsgs :
       (ChanInfoDone(m) /\ unmapped(m))
         => ircClients' = ircClients /\ clients' = clients
    ]_vars

\* C38: a client has at most one pending away timer, and that timer is the
\* one client.timer refers to: no timer set by startAwayTimer stays pending
\* after client.timer was assigned another one.
OnePendingTimer ==
  \A c \in 1..Len(clients) : clients[c].leaked = 0

\* C39: every drain restarts the away timeout, so no timer releases a pool
\* entry sooner than the interval after the entry's latest drain: a timer
\* that was set before the latest drain of a pool entry and fires after it
\* leaves the pool as it is.
NoReleaseSoonerAfterDrain ==
  [][\A c \in 1..MaxClients :
       (TimerFire(c, FALSE) /\ clients[c].stale > 0 /\ ircClients[clients[c].userId] = c)
         => ircClients' = ircClients
    ]_vars

====
